---- MODULE Spec2Model ----
(***************************************************************************)
(* Waveform overlay (src/src/overlay): the WaveformOverlay window of       *)
(* main.py with its GLib timer callbacks, the AudioInput level reader of   *)
(* audio.py and the ErrorState singleton of errors.py.                     *)
(*                                                                         *)
(* Numbers.  The program's floats are modelled in fixed point:             *)
(*   - levels, bars, target_bars, overall_audio_level: a value is a record *)
(*     [k |-> "fin", v |-> n] standing for n / Scale, or one of the        *)
(*     non-finite floats NaN, +Infinity, -Infinity; products with a        *)
(*     constant are rounded down to the grid;                              *)
(*   - animation_progress: an integer number of hundredths (the step 0.04  *)
(*     is 4, 1.0 is 100); 25 steps of 0.04 clamp to exactly 1.0 / 0 in the *)
(*     program's doubles as well;                                          *)
(*   - spinner_angle: the pair (ticks, wraps) standing for the real number *)
(*     0.15 * ticks - 2 * pi * wraps.                                      *)
(*   - where single interpolation steps must stay apart the bars are kept  *)
(*     on a grid of 1 / FineScale, products rounded down or up;            *)
(*   - clock: time.time() - start_time in tenths of a second.              *)
(***************************************************************************)
EXTENDS Integers, Sequences, FiniteSets, TLC

\* ------------------------------------------------------------------ bounds
\* Number of bars of the scaled-down waveform (the program has 16).
NumBars == 1
\* Direct calls of AudioInput.cleanup made on one object
MaxCleanups == 3
\* Animation ticks taken with the targets held constant
MaxHeld == 20
\* An animation tick in Processing is taken while fewer than MaxSpin spinner
\* steps were made (spinner_angle grows without bound otherwise).
MaxSpin == 2
\* The same limit where the spinner is followed through two full turns
MaxTurn == 85
\* Number of bars where the audio history is followed entry by entry
HistoryBars == 3

\* ------------------------------------------------------- program constants
\* Fixed-point unit of the float fields: 1.0 is Scale, 0.1 is Scale \div 10.
Scale == 10
\* self._max_read_errors
MAX_READ_ERRORS == 10
\* ErrorState._max_consecutive
MAX_CONSECUTIVE == 5
\* animation_progress: 1.0 and the step 0.04, in hundredths
PROGRESS_ONE == 100
PROGRESS_STEP == 4
\* draw_timer and draw_waveform draw nothing below this animation_progress
PROGRESS_SHOWN == 70
\* The clock's unit: 1 second is TimeUnit
TimeUnit == 10
\* Cap at 24 hours
DAY_SECONDS == 86400
\* Fixed-point unit of the bars where 20 interpolation steps must stay
\* apart: 1.0 is FineScale
FineScale == 100000000

\* --------------------------------------------------------------- floats
Fin(n) == [k |-> "fin", v |-> n]
NaN == [k |-> "nan", v |-> 0]
PosInf == [k |-> "inf", v |-> 1]
NegInf == [k |-> "inf", v |-> -1]

Zero == Fin(0)
One == Fin(Scale)
\* the literal 0.1
Tenth == Fin(Scale \div 10)

IsFinite(x) == x.k = "fin"

\* x + y of IEEE doubles
FAdd(x, y) ==
    IF x.k = "nan" \/ y.k = "nan" THEN NaN
    ELSE IF x.k = "inf" /\ y.k = "inf" THEN (IF x.v = y.v THEN x ELSE NaN)
    ELSE IF x.k = "inf" THEN x
    ELSE IF y.k = "inf" THEN y
    ELSE Fin(x.v + y.v)

FNeg(x) == IF x.k = "nan" THEN NaN ELSE [k |-> x.k, v |-> 0 - x.v]

FSub(x, y) == FAdd(x, FNeg(y))

\* x * (num / den) for a positive constant num / den, rounded down to the grid
FMulC(x, num, den) ==
    IF x.k = "fin" THEN Fin((x.v * num) \div den) ELSE x

\* The same product rounded up to the grid
FMulCUp(x, num, den) ==
    IF x.k = "fin" THEN Fin(0 - ((0 - x.v * num) \div den)) ELSE x

\* The product rounded up or down
FMulR(x, num, den, up) ==
    IF up THEN FMulCUp(x, num, den) ELSE FMulC(x, num, den)

\* x < y of IEEE doubles: false whenever a NaN is involved
FLt(x, y) ==
    IF x.k = "nan" \/ y.k = "nan" THEN FALSE
    ELSE IF x.k = "inf" /\ y.k = "inf" THEN x.v < y.v
    ELSE IF x.k = "inf" THEN x.v < 0
    ELSE IF y.k = "inf" THEN y.v > 0
    ELSE x.v < y.v

\* Python's min(a, b): b when b < a, else a (so min(nan, 1.0) is nan)
PyMin(a, b) == IF FLt(b, a) THEN b ELSE a

\* Python's max(a, b): b when b > a, else a (so max(0.0, nan) is 0.0)
PyMax(a, b) == IF FLt(a, b) THEN b ELSE a

\* 0 <= x <= 1 for a finite x
InUnit(x) == x.k = "fin" /\ 0 <= x.v /\ x.v <= Scale

\* ------------------------------------------------------------------ inputs
\* Texts of the exceptions the environment can raise (ErrorState keys its
\* consecutive-error counts by message text).
ExcMsgs == {"e1", "e2"}

\* rms / 3000.0 of one buffer, before min(.., 1.0): silence, full scale and
\* an overdriven buffer
RawLevels == {Fin(0), Fin(Scale), Fin(2 * Scale)}

Outcome(kind, raw, msg) == [kind |-> kind, raw |-> raw, msg |-> msg]

\* What one pass of get_level through the device can meet.
GoodReads == {Outcome("ok", r, "") : r \in RawLevels}

FailedReads ==
    {Outcome("inactive", Zero, ""), Outcome("ioerror", Zero, ""),
     Outcome("structerror", Zero, "")}
    \cup {Outcome("exception", Zero, m) : m \in ExcMsgs}

EmptyRead == Outcome("empty", Zero, "")

ReadOutcomes == GoodReads \cup FailedReads \cup {EmptyRead}

\* A microphone that delivers silence or fails
SilentReads == {Outcome("ok", Zero, ""), EmptyRead} \cup FailedReads

\* A working microphone in a silent room
QuietReads == {Outcome("ok", Zero, ""), EmptyRead}

\* What a sampler other than AudioInput could hand back: a negative level,
\* one above 1.0, and the non-finite floats, besides 0.0 and 1.0
AdversarialLevels ==
    {Fin(0 - Scale), Fin(2 * Scale), NaN, PosInf, NegInf, Zero, One}

\* A working microphone
WorkingReads == GoodReads \cup {EmptyRead}

\* A working microphone delivering silence, half scale or full scale
HistoryReads ==
    {Outcome("ok", Zero, ""), Outcome("ok", Fin(Scale \div 2), ""),
     Outcome("ok", One, "")}

\* random.uniform(0.8, 1.2), in percent
Jitters == {80, 120}

\* time.time() - start_time in tenths of a second: a clock set back, the
\* first second, 59.9 s and 60 s, 125 s and 125.9 s, an hour and 59 s, and
\* the values around 24 hours
ClockValues ==
    {0 - 15, 0 - 5, 0, 9, 599, 600, 1250, 1259, 36590,
     864000, 864009, 864010, 1000000}

\* The signal files: /tmp/groq_processing_mode, /tmp/groq_connection_error,
\* /tmp/groq_close_animation
SignalFiles == {"processing", "error", "close"}

\* The GLib timeouts registered by __init__ that the claims are about
Handlers == {"audio", "anim", "morph", "procpoll", "closepoll"}

\* ------------------------------------------------------------------- state
VARIABLES
    processing_mode,      \* WaveformOverlay.processing_mode
    is_offline,           \* WaveformOverlay.is_offline
    shutting_down,        \* WaveformOverlay._shutting_down
    is_closing,           \* WaveformOverlay.is_closing
    animation_progress,   \* WaveformOverlay.animation_progress, in hundredths
    bars,                 \* WaveformOverlay.bars
    target_bars,          \* WaveformOverlay.target_bars
    audio_levels,         \* WaveformOverlay.audio_levels
    overall_audio_level,  \* WaveformOverlay.overall_audio_level
    spinner_angle,        \* WaveformOverlay.spinner_angle
    timers,               \* the timeouts GLib still has scheduled
    audio_input,          \* the AudioInput object
    error_state,          \* the ErrorState singleton
    files,                \* the signal files that exist
    last_call,            \* the last get_level call: its result, device use
    fail_streak,          \* history: failed reads since the last good read
    cleanup_calls,        \* number of AudioInput.cleanup calls so far
    quit_calls,           \* number of Gtk.main_quit calls so far
    held_ticks,           \* history: animation ticks counted by held_tick
    clock,                \* time.time() - start_time, in tenths of a second
    timer_text            \* what the last draw of timer_area showed

modeVars == <<processing_mode, is_offline>>
morphVars == <<is_closing, animation_progress>>
waveVars ==
    <<bars, target_bars, audio_levels, overall_audio_level, held_ticks>>
audioVars == <<audio_input, error_state, last_call, fail_streak>>
exitVars == <<shutting_down, cleanup_calls, quit_calls>>
drawVars == <<clock, timer_text>>

vars ==
    <<processing_mode, is_offline, shutting_down, is_closing,
      animation_progress, bars, target_bars, audio_levels,
      overall_audio_level, spinner_angle, timers, audio_input, error_state,
      files, last_call, fail_streak, cleanup_calls, quit_calls, held_ticks,
      clock, timer_text>>

\* ------------------------------------------------------------- ErrorState
\* The keys of ErrorState._consecutive_errors in category AUDIO_INPUT:
\* "setup" (log_error of AudioInput.setup), "tick" (log_error of
\* _safe_update_audio_levels) and one per text of an unexpected read error.
\* Errors of the other categories change no field the model keeps.
ErrorKeys == {"setup", "tick"} \cup ExcMsgs

\* ErrorState.__init__
NewErrorState ==
    [audio_degraded |-> FALSE, consecutive |-> [key \in ErrorKeys |-> 0]]

\* ErrorState.record_error for category AUDIO_INPUT.  The count is only ever
\* compared with _max_consecutive, so it is kept up to that value.
RecordAudioError(es, key) ==
    LET n == IF es.consecutive[key] < MAX_CONSECUTIVE
             THEN es.consecutive[key] + 1
             ELSE es.consecutive[key]
    IN [audio_degraded |-> es.audio_degraded \/ n >= MAX_CONSECUTIVE,
        consecutive |-> [es.consecutive EXCEPT ![key] = n]]

\* ------------------------------------------------------------- AudioInput
\* AudioInput.__init__ followed by setup(): the device opens ("ok"), there
\* is no input device ("nodevice": the PyAudio handle is kept), or PyAudio
\* raises ("error": _cleanup_partial drops both handles and log_error
\* records the exception).  Besides the fields of the object the record
\* keeps how often the stream was stopped and closed and the PyAudio handle
\* terminated; for "error" it is audio.open that raised, so _cleanup_partial
\* terminates the handle (with PyAudio() itself raising there is no handle
\* and no call, the fields are the same).
SetupResults == {"ok", "nodevice", "error"}

SetUp(result) ==
    [audio |-> result # "error",
     stream |-> result = "ok",
     processing_mode |-> FALSE,
     setup_failed |-> result # "ok",
     read_errors |-> 0,
     stops |-> 0,
     closes |-> 0,
     terminates |-> IF result = "error" THEN 1 ELSE 0]

SetUpErrors(result) ==
    IF result = "error" THEN RecordAudioError(NewErrorState, "setup")
    ELSE NewErrorState

\* Success - reset error count (audio.py:136-138)
OnReadSuccess(n) == IF n > 0 THEN (IF n - 1 > 0 THEN n - 1 ELSE 0) ELSE n

\* AudioInput.get_level with the device behaving as outcome o: the object
\* and the error state afterwards, the level returned and whether the
\* stream was used (is_active / read called).
GetLevel(ai, es, o) ==
    LET quiet(a, e, dev) == [ai |-> a, es |-> e, ret |-> Zero, device |-> dev]
        failed == [ai EXCEPT !.read_errors = @ + 1]
    IN
    IF ai.setup_failed \/ ai.processing_mode THEN quiet(ai, es, FALSE)
    ELSE IF ~ai.stream THEN quiet(ai, es, FALSE)
    ELSE IF ai.read_errors >= MAX_READ_ERRORS
         THEN quiet(ai, [es EXCEPT !.audio_degraded = TRUE], FALSE)
    ELSE CASE o.kind = "inactive" -> quiet(failed, es, TRUE)
           [] o.kind = "empty" -> quiet(ai, es, TRUE)
           [] o.kind = "ok" ->
                [ai |-> [ai EXCEPT !.read_errors = OnReadSuccess(@)],
                 es |-> es,
                 ret |-> PyMin(o.raw, One),
                 device |-> TRUE]
           [] o.kind = "ioerror" -> quiet(failed, es, TRUE)
           [] o.kind = "structerror" -> quiet(failed, es, TRUE)
           [] o.kind = "exception" ->
                quiet(failed, RecordAudioError(es, o.msg), TRUE)

\* AudioInput.cleanup with the handles kept after they were released
CleanupKeepsHandles(ai) ==
    [ai EXCEPT !.stops = IF ai.stream THEN @ + 1 ELSE @,
               !.closes = IF ai.stream THEN @ + 1 ELSE @,
               !.terminates = IF ai.audio THEN @ + 1 ELSE @]

\* AudioInput.cleanup: stop_stream, close and terminate are each called
\* inside their own try, so whether one of them raises or not the handle is
\* dropped afterwards.
Cleanup(ai) ==
    [ai EXCEPT !.stops = IF ai.stream THEN @ + 1 ELSE @,
               !.closes = IF ai.stream THEN @ + 1 ELSE @,
               !.terminates = IF ai.audio THEN @ + 1 ELSE @,
               !.stream = FALSE,
               !.audio = FALSE]

\* AudioInput.set_processing_mode
SetProcessingMode(ai, enabled) == [ai EXCEPT !.processing_mode = enabled]

\* AudioInput.is_available
IsAvailable(ai) ==
    ~ai.setup_failed /\ ai.stream /\ ai.read_errors < MAX_READ_ERRORS

\* ---------------------------------------------------------------- overlay
\* range(self.num_bars): num_bars is the length the three lists are given
\* in __init__ and keep
BarIdx == DOMAIN bars

\* WaveformOverlay.__init__, the waveform data for num_bars = n
InitWave(n) ==
    /\ bars = [i \in 1 .. n |-> Tenth]
    /\ target_bars = [i \in 1 .. n |-> Tenth]
    /\ audio_levels = [i \in 1 .. n |-> Zero]
    /\ overall_audio_level = Zero

\* WaveformOverlay.__init__, the other fields, with AudioInput.setup()
\* ending as `result`
InitRest(result) ==
    /\ processing_mode = FALSE
    /\ is_offline = FALSE
    /\ shutting_down = FALSE
    /\ is_closing = FALSE
    /\ animation_progress = 0
    /\ spinner_angle = [ticks |-> 0, wraps |-> 0]
    /\ timers = Handlers
    /\ audio_input = SetUp(result)
    /\ error_state = SetUpErrors(result)
    /\ files = {}
    /\ last_call = [ret |-> Zero, device |-> FALSE]
    /\ fail_streak = 0
    /\ cleanup_calls = 0
    /\ quit_calls = 0
    /\ held_ticks = 0
    /\ clock = 0
    /\ timer_text = ""

InitWith(result) == InitWave(NumBars) /\ InitRest(result)

Init == \E result \in SetupResults : InitWith(result)

\* A timer callback returned `keep`: GLib keeps the timeout or removes it.
Reschedule(h, keep) == timers' = IF keep THEN timers ELSE timers \ {h}

\* The guard every _safe_* wrapper starts with: after the latch the
\* callback returns False and touches nothing.
Stopped(h) ==
    /\ h \in timers
    /\ shutting_down
    /\ Reschedule(h, FALSE)
    /\ UNCHANGED drawVars
    /\ UNCHANGED <<modeVars, morphVars, waveVars, audioVars, exitVars,
                   spinner_angle, files>>

\* safe_cleanup(self.audio_input.cleanup, lambda: Gtk.main_quit()) behind
\* the latch; cleanup swallows its own exceptions and safe_cleanup those of
\* each function, so both calls are always made.
Teardown ==
    /\ shutting_down' = TRUE
    /\ audio_input' = Cleanup(audio_input)
    /\ cleanup_calls' = cleanup_calls + 1
    /\ quit_calls' = quit_calls + 1

\* on_destroy without its latch test
on_destroy_unlatched ==
    /\ Teardown
    /\ UNCHANGED drawVars
    /\ UNCHANGED <<modeVars, morphVars, waveVars, error_state, last_call,
                   fail_streak, spinner_angle, timers, files>>

\* WaveformOverlay.on_destroy: the window's 'destroy' signal
on_destroy ==
    /\ IF shutting_down
       THEN UNCHANGED <<shutting_down, audio_input, cleanup_calls, quit_calls>>
       ELSE Teardown
    /\ UNCHANGED drawVars
    /\ UNCHANGED <<modeVars, morphVars, waveVars, error_state, last_call,
                   fail_streak, spinner_angle, timers, files>>

\* The morph step with the entrance step the program had before (0.10)
MorphStepOldSpeed(closing, p) ==
    IF closing
    THEN (IF p - PROGRESS_STEP <= 0 THEN 0 ELSE p - PROGRESS_STEP)
    ELSE IF p < PROGRESS_ONE
         THEN (IF p + 10 > PROGRESS_ONE THEN PROGRESS_ONE ELSE p + 10)
         ELSE p

\* One step of the morph (main.py:234-251): the new animation_progress.
MorphStep(closing, p) ==
    IF closing
    THEN (IF p - PROGRESS_STEP <= 0 THEN 0 ELSE p - PROGRESS_STEP)
    ELSE IF p < PROGRESS_ONE
         THEN (IF p + PROGRESS_STEP > PROGRESS_ONE THEN PROGRESS_ONE
               ELSE p + PROGRESS_STEP)
         ELSE p

\* The closing step came down to 0: animate_entrance tears down and returns
\* False before it draws anything.
MorphTerminal(closing, p) == closing /\ p - PROGRESS_STEP <= 0

\* _safe_animate_entrance, animate_entrance returning normally
animate_entrance ==
    /\ "morph" \in timers
    /\ ~shutting_down
    /\ animation_progress' = MorphStep(is_closing, animation_progress)
    /\ IF MorphTerminal(is_closing, animation_progress)
       THEN Teardown /\ Reschedule("morph", FALSE)
       ELSE /\ UNCHANGED <<shutting_down, audio_input, cleanup_calls,
                           quit_calls>>
            /\ Reschedule("morph", TRUE)
    /\ UNCHANGED drawVars
    /\ UNCHANGED <<modeVars, is_closing, waveVars, error_state, last_call,
                   fail_streak, spinner_angle, files>>

\* The value the except branch of _safe_animate_entrance stores.
MorphOnError(p) == PROGRESS_ONE

\* _safe_animate_entrance, set_opacity or queue_draw raising (main.py:254-260
\* run only when the step was not the terminal one): the wrapper completes
\* the animation and returns False.
animate_entrance_raises ==
    /\ "morph" \in timers
    /\ ~shutting_down
    /\ ~MorphTerminal(is_closing, animation_progress)
    /\ animation_progress' =
           MorphOnError(MorphStep(is_closing, animation_progress))
    /\ Reschedule("morph", FALSE)
    /\ UNCHANGED drawVars
    /\ UNCHANGED <<modeVars, is_closing, waveVars, audioVars, exitVars,
                   spinner_angle, files>>

\* safe_file_remove(path): the file is gone unless os.remove raised
\* (removed = FALSE), which the helper swallows.
FileRemove(fs, f, removed) == IF removed THEN fs \ {f} ELSE fs

\* check_close_signal (main.py:266-269): the new is_closing and files.
CloseSignal(fs, closing, removed) ==
    IF "close" \in fs /\ ~closing
    THEN [is_closing |-> TRUE, files |-> FileRemove(fs, "close", removed)]
    ELSE [is_closing |-> closing, files |-> fs]

\* _safe_check_close_signal; os.remove succeeds or not as `removals` allows
check_close_signal(removals) ==
    /\ "closepoll" \in timers
    /\ ~shutting_down
    /\ \E removed \in removals :
         LET r == CloseSignal(files, is_closing, removed)
         IN /\ is_closing' = r.is_closing
            /\ files' = r.files
    /\ Reschedule("closepoll", TRUE)
    /\ UNCHANGED drawVars
    /\ UNCHANGED <<modeVars, animation_progress, waveVars, audioVars,
                   exitVars, spinner_angle>>

\* check_processing_mode, the processing signal (main.py:319-325): whether
\* the poll switches to Processing, and the files afterwards.
ProcessingSignal(fs, pm, removed) ==
    IF "processing" \in fs /\ ~pm
    THEN [enter |-> TRUE, files |-> FileRemove(fs, "processing", removed)]
    ELSE [enter |-> FALSE, files |-> fs]

\* The connection-error signal read as a level: is_offline follows the file
ErrorSignalAsLevel(fs, offline, removed, raised) ==
    IF "error" \in fs
    THEN [is_offline |-> TRUE,
          files |-> IF raised THEN fs ELSE FileRemove(fs, "error", removed)]
    ELSE [is_offline |-> FALSE, files |-> fs]

\* check_processing_mode, the connection-error signal (main.py:328-333):
\* the new is_offline and files; queue_draw raising (raised) leaves the
\* method before safe_file_remove.
ErrorSignal(fs, offline, removed, raised) ==
    IF "error" \in fs
    THEN [is_offline |-> TRUE,
          files |-> IF raised THEN fs ELSE FileRemove(fs, "error", removed)]
    ELSE [is_offline |-> offline, files |-> fs]

\* _safe_check_processing_mode: check_processing_mode returning True, or
\* raising in queue_draw and the wrapper returning True; os.remove succeeds
\* or not as `removals` allows, queue_draw raises or not as `raises` allows
check_processing_mode(removals, raises) ==
    /\ "procpoll" \in timers
    /\ ~shutting_down
    /\ \E removed1 \in removals, removed2 \in removals, raised \in raises :
         LET p == ProcessingSignal(files, processing_mode, removed1)
             e == ErrorSignal(p.files, is_offline, removed2, raised)
         IN /\ processing_mode' = (processing_mode \/ p.enter)
            /\ audio_input' = IF p.enter
                              THEN SetProcessingMode(audio_input, TRUE)
                              ELSE audio_input
            /\ spinner_angle' = IF p.enter THEN [ticks |-> 0, wraps |-> 0]
                                ELSE spinner_angle
            /\ is_offline' = e.is_offline
            /\ files' = e.files
    /\ Reschedule("procpoll", TRUE)
    /\ UNCHANGED <<drawVars, morphVars, waveVars, error_state, last_call,
                   fail_streak, exitVars>>

\* The target of a bar without the minimum height
TargetBarNoFloor(audio_val, random_factor) ==
    PyMin(FMulC(audio_val, random_factor, 100), One)

\* The target of a bar without the upper clamp min(.., 1.0)
TargetBarUnclamped(audio_val, random_factor) ==
    LET t == FMulC(audio_val, random_factor, 100)
    IN IF FLt(t, Tenth) THEN Tenth ELSE t

\* update_audio_levels after get_level (main.py:200-216) for the level read
\* and the jitter drawn for each bar: the new wave fields.
TargetBar(audio_val, random_factor) ==
    LET t == PyMin(FMulC(audio_val, random_factor, 100), One)
    IN IF FLt(t, Tenth) THEN Tenth ELSE t

Smooth(overall, level) == FAdd(FMulC(overall, 7, 10), FMulC(level, 3, 10))

ShiftLevels(levels, level) == Append(Tail(levels), level)

\* The targets read from the history front to back
NewTargetsForward(levels, jitter) ==
    [i \in DOMAIN levels |-> TargetBar(levels[i], jitter[i])]

NewTargets(levels, jitter) ==
    [i \in DOMAIN levels |->
       TargetBar(levels[Len(levels) + 1 - i], jitter[i])]

WaveUpdate(level, jitter) ==
    /\ overall_audio_level' = Smooth(overall_audio_level, level)
    /\ audio_levels' = ShiftLevels(audio_levels, level)
    /\ target_bars' = NewTargets(ShiftLevels(audio_levels, level), jitter)
    /\ UNCHANGED <<bars, held_ticks>>

\* What get_level can return in the current state when the device behaves
\* as one of `reads`, with the history of failed reads kept alongside.
Streak(n, o, device) ==
    IF ~device \/ o.kind = "empty" THEN n
    ELSE IF o.kind = "ok" THEN 0
    ELSE IF n < MAX_READ_ERRORS THEN n + 1 ELSE n

Sampler(reads) ==
    {LET g == GetLevel(audio_input, error_state, o)
     IN [ai |-> g.ai, es |-> g.es, ret |-> g.ret, device |-> g.device,
         streak |-> Streak(fail_streak, o, g.device)] : o \in reads}

\* A level sampler that is not AudioInput: it hands back any of `levels`.
StubSampler(levels) ==
    {[ai |-> audio_input, es |-> error_state, ret |-> l, device |-> TRUE,
      streak |-> fail_streak] : l \in levels}

\* The call self.audio_input.get_level() returning g
Sampled(g) ==
    /\ audio_input' = g.ai
    /\ error_state' = g.es
    /\ last_call' = [ret |-> g.ret, device |-> g.device]
    /\ fail_streak' = g.streak

\* _safe_update_audio_levels with update_audio_levels not looking at
\* processing_mode
update_audio_levels_always(samples) ==
    /\ "audio" \in timers
    /\ ~shutting_down
    /\ \E g \in samples, jitter \in [BarIdx -> Jitters] :
         /\ Sampled(g)
         /\ WaveUpdate(g.ret, jitter)
    /\ Reschedule("audio", TRUE)
    /\ UNCHANGED drawVars
    /\ UNCHANGED <<modeVars, morphVars, exitVars, spinner_angle, files>>

\* _safe_update_audio_levels, update_audio_levels returning True; get_level
\* returns one of `samples`
update_audio_levels(samples) ==
    /\ "audio" \in timers
    /\ ~shutting_down
    /\ IF processing_mode
       THEN UNCHANGED <<waveVars, audioVars>>
       ELSE \E g \in samples, jitter \in [BarIdx -> Jitters] :
              /\ Sampled(g)
              /\ WaveUpdate(g.ret, jitter)
    /\ Reschedule("audio", TRUE)
    /\ UNCHANGED drawVars
    /\ UNCHANGED <<modeVars, morphVars, exitVars, spinner_angle, files>>

\* _safe_update_audio_levels, update_audio_levels raising after get_level
\* returned: log_error records the exception and the wrapper returns True
update_audio_levels_raises(samples) ==
    /\ "audio" \in timers
    /\ ~shutting_down
    /\ ~processing_mode
    /\ \E g \in samples :
         Sampled([g EXCEPT !.es = RecordAudioError(g.es, "tick")])
    /\ Reschedule("audio", TRUE)
    /\ UNCHANGED drawVars
    /\ UNCHANGED <<modeVars, morphVars, waveVars, exitVars, spinner_angle,
                   files>>

\* 2 * math.pi and the spinner step 0.15, in millionths
TWO_PI_E6 == 6283185
SPIN_STEP_E6 == 150000

\* spinner_angle > 2 * math.pi for the angle 0.15 * ticks - 2 * pi * wraps
OverTwoPi(a) == SPIN_STEP_E6 * a.ticks > TWO_PI_E6 * (a.wraps + 1)

\* The spinner step without the wrap
SpinStepNoWrap(a) == [a EXCEPT !.ticks = @ + 1]

\* update_animation in Processing (main.py:361-365); the clamp to
\* [0, 2 * pi] changes nothing after the wrap.
SpinStep(a) ==
    LET b == [a EXCEPT !.ticks = @ + 1]
    IN IF OverTwoPi(b) THEN [b EXCEPT !.wraps = @ + 1] ELSE b

\* The interpolation of one bar with the gain 0.2
BarStepSlow(one, up, bar, target) ==
    PyMax(Zero, PyMin(FAdd(bar, FMulR(FSub(target, bar), 2, 10, up)), one))

\* update_animation outside Processing (main.py:369-374), one bar, on the
\* grid where 1.0 is `one`, the product rounded up or down
BarStepAt(one, up, bar, target) ==
    PyMax(Zero, PyMin(FAdd(bar, FMulR(FSub(target, bar), 3, 10, up)), one))

BarStep(bar, target) == BarStepAt(One, FALSE, bar, target)

\* _safe_update_animation without the latch test at its start
update_animation_unlatched(limit) ==
    /\ "anim" \in timers
    /\ IF processing_mode
       THEN /\ spinner_angle.ticks < limit
            /\ spinner_angle' = SpinStep(spinner_angle)
            /\ UNCHANGED bars
       ELSE /\ bars' = [i \in BarIdx |-> BarStep(bars[i], target_bars[i])]
            /\ UNCHANGED spinner_angle
    /\ Reschedule("anim", TRUE)
    /\ UNCHANGED drawVars
    /\ UNCHANGED <<modeVars, morphVars, target_bars, audio_levels,
                   overall_audio_level, held_ticks, audioVars, exitVars,
                   files>>

\* _safe_update_animation: update_animation returning True, or raising in
\* queue_draw (after the fields are updated) and the wrapper returning True;
\* in Processing the tick is taken while fewer than `limit` spinner steps
\* were made
update_animation(limit) ==
    /\ "anim" \in timers
    /\ ~shutting_down
    /\ IF processing_mode
       THEN /\ spinner_angle.ticks < limit
            /\ spinner_angle' = SpinStep(spinner_angle)
            /\ UNCHANGED bars
       ELSE /\ bars' = [i \in BarIdx |-> BarStep(bars[i], target_bars[i])]
            /\ UNCHANGED spinner_angle
    /\ Reschedule("anim", TRUE)
    /\ UNCHANGED drawVars
    /\ UNCHANGED <<modeVars, morphVars, target_bars, audio_levels,
                   overall_audio_level, held_ticks, audioVars, exitVars,
                   files>>

\* 1.0 and the initial bar height 0.1 on the fine grid
FineOne == Fin(FineScale)
FineTenth == Fin(FineScale \div 10)

\* Targets held constant while the bars follow: 1.0, 0.8, 0.5 and the
\* floor 0.1
HeldTargets ==
    {FineOne, Fin(8 * (FineScale \div 10)), Fin(FineScale \div 2), FineTenth}

\* WaveformOverlay.__init__ with the bars on the fine grid and target_bars
\* as some audio ticks left them
InitHeld ==
    /\ processing_mode = FALSE
    /\ is_offline = FALSE
    /\ shutting_down = FALSE
    /\ is_closing = FALSE
    /\ animation_progress = 0
    /\ bars = [i \in 1 .. NumBars |-> FineTenth]
    /\ target_bars \in [1 .. NumBars -> HeldTargets]
    /\ audio_levels = [i \in 1 .. NumBars |-> Zero]
    /\ overall_audio_level = Zero
    /\ spinner_angle = [ticks |-> 0, wraps |-> 0]
    /\ timers = Handlers
    /\ audio_input = SetUp("ok")
    /\ error_state = NewErrorState
    /\ files = {}
    /\ last_call = [ret |-> Zero, device |-> FALSE]
    /\ fail_streak = 0
    /\ cleanup_calls = 0
    /\ quit_calls = 0
    /\ held_ticks = 0
    /\ clock = 0
    /\ timer_text = ""

\* _safe_update_animation outside Processing with the bars on the fine grid,
\* counted: the product diff * 0.3 of each bar is rounded down or up, which
\* brackets the double the program computes
held_tick ==
    /\ "anim" \in timers
    /\ ~shutting_down
    /\ ~processing_mode
    /\ held_ticks < MaxHeld
    /\ \E up \in [BarIdx -> BOOLEAN] :
         bars' = [i \in BarIdx |->
                    BarStepAt(FineOne, up[i], bars[i], target_bars[i])]
    /\ held_ticks' = held_ticks + 1
    /\ Reschedule("anim", TRUE)
    /\ UNCHANGED drawVars
    /\ UNCHANGED <<modeVars, morphVars, target_bars, audio_levels,
                   overall_audio_level, spinner_angle, audioVars, exitVars,
                   files>>

\* int(x) of Python for x = d / TimeUnit: truncation towards zero
PyInt(d) ==
    IF d >= 0 THEN d \div TimeUnit ELSE 0 - ((0 - d) \div TimeUnit)

\* f"{n}" without the padding
FormatPlain(n) == ToString(n)

\* f"{n:02d}" for n >= 0
Format02d(n) == IF n < 10 THEN "0" \o ToString(n) ELSE ToString(n)

\* draw_timer, the timer text (renderers.py:186-195)
TimerText(d) ==
    LET e0 == PyInt(d)
        e1 == IF e0 < 0 THEN 0 ELSE e0
        elapsed == IF e1 > DAY_SECONDS THEN DAY_SECONDS ELSE e1
    IN ToString(elapsed \div 60) \o ":" \o Format02d(elapsed % 60)

\* draw_timer: what the timer area shows afterwards; `raised` is cairo
\* raising, which _safe_draw catches
DrawTimer(progress, pm, offline, d, raised) ==
    IF raised \/ progress < PROGRESS_SHOWN \/ offline THEN ""
    ELSE IF pm THEN "spinner"
    ELSE TimerText(d)

\* WaveformOverlay.on_draw_timer: GTK redraws the timer area
on_draw_timer ==
    /\ quit_calls = 0
    /\ \E raised \in BOOLEAN :
         timer_text' = DrawTimer(animation_progress, processing_mode,
                                 is_offline, clock, raised)
    /\ UNCHANGED <<clock, modeVars, morphVars, waveVars, audioVars, exitVars,
                   spinner_angle, timers, files>>

\* Time passes, or the system clock is set
time_passes ==
    /\ quit_calls = 0
    /\ \E d \in ClockValues \ {clock} : clock' = d
    /\ UNCHANGED <<timer_text, modeVars, morphVars, waveVars, audioVars,
                   exitVars, spinner_angle, timers, files>>

\* Another process creates one of the signal files `signals` while the
\* overlay runs.
raise_signal(signals) ==
    /\ quit_calls = 0
    /\ \E f \in signals \ files : files' = files \cup {f}
    /\ UNCHANGED drawVars
    /\ UNCHANGED <<modeVars, morphVars, waveVars, audioVars, exitVars,
                   spinner_angle, timers>>

\* A callback that is still scheduled runs after the latch is set.
stopped_callback == \E h \in Handlers : Stopped(h)

\* The AudioInput object used on its own: a call of cleanup()
cleanup ==
    /\ cleanup_calls < MaxCleanups
    /\ audio_input' = Cleanup(audio_input)
    /\ cleanup_calls' = cleanup_calls + 1
    /\ UNCHANGED drawVars
    /\ UNCHANGED <<modeVars, morphVars, waveVars, spinner_angle, timers,
                   error_state, files, last_call, fail_streak, shutting_down,
                   quit_calls>>

\* A call of get_level() with the device behaving as one of `reads`
get_level(reads) ==
    /\ \E g \in Sampler(reads) : Sampled(g)
    /\ UNCHANGED drawVars
    /\ UNCHANGED <<modeVars, morphVars, waveVars, spinner_angle, timers,
                   files, exitVars>>

\* A call of set_processing_mode(enabled)
set_processing_mode ==
    /\ \E enabled \in BOOLEAN :
         audio_input' = SetProcessingMode(audio_input, enabled)
    /\ UNCHANGED drawVars
    /\ UNCHANGED <<modeVars, morphVars, waveVars, spinner_angle, timers,
                   error_state, files, last_call, fail_streak, exitVars>>

\* ------------------------------------------------------- specifications
\* The overlay with nothing assumed about its environment.
Next ==
    \/ update_audio_levels(Sampler(ReadOutcomes))
    \/ update_audio_levels_raises(Sampler(ReadOutcomes))
    \/ update_animation(MaxSpin)
    \/ animate_entrance
    \/ animate_entrance_raises
    \/ check_processing_mode(BOOLEAN, BOOLEAN)
    \/ check_close_signal(BOOLEAN)
    \/ on_destroy
    \/ raise_signal(SignalFiles)
    \/ stopped_callback

Spec == Init /\ [][Next]_vars

\* The overlay in a silent room: every handler, every failure of a handler,
\* the destroy signal and the three signal files; the microphone, when it
\* opened, delivers silence.
NextQuiet ==
    \/ update_audio_levels(Sampler(QuietReads))
    \/ update_audio_levels_raises(Sampler(QuietReads))
    \/ update_animation(MaxSpin)
    \/ animate_entrance
    \/ animate_entrance_raises
    \/ check_processing_mode(BOOLEAN, BOOLEAN)
    \/ check_close_signal(BOOLEAN)
    \/ on_destroy
    \/ raise_signal(SignalFiles)
    \/ stopped_callback

SpecQuiet == Init /\ [][NextQuiet]_vars

\* The overlay with a working microphone, until the closing animation tears
\* it down.
NextWave ==
    \/ update_audio_levels(Sampler(WorkingReads))
    \/ update_animation(MaxSpin)
    \/ animate_entrance
    \/ animate_entrance_raises
    \/ check_processing_mode({TRUE}, {FALSE})
    \/ check_close_signal({TRUE})
    \/ raise_signal({"processing", "close"})

SpecWave == InitWith("ok") /\ [][NextWave]_vars

\* The audio path with a microphone that delivers silence or fails.
NextBreaker ==
    \/ update_audio_levels(Sampler(SilentReads))
    \/ check_processing_mode({TRUE}, {FALSE})
    \/ raise_signal({"processing"})
    \/ on_destroy
    \/ stopped_callback

SpecBreaker == InitWith("ok") /\ [][NextBreaker]_vars

\* The waveform fed by a level sampler that does not keep to [0, 1].
NextAdversarial ==
    \/ update_audio_levels(StubSampler(AdversarialLevels))
    \/ update_animation(MaxSpin)
    \/ check_processing_mode({TRUE}, {FALSE})
    \/ raise_signal({"processing"})

SpecAdversarial == InitWith("ok") /\ [][NextAdversarial]_vars

\* The polls with os.remove succeeding and no handler raising.
NextSignals ==
    \/ check_processing_mode({TRUE}, {FALSE})
    \/ check_close_signal({TRUE})
    \/ animate_entrance
    \/ raise_signal(SignalFiles)

SpecSignals == Init /\ [][NextSignals]_vars

\* The morph and the polls, with entrance/exit ticks that may fail; GLib
\* fires the entrance/exit timeout again and again while it is scheduled.
NextClosing ==
    \/ check_processing_mode({TRUE}, {FALSE})
    \/ check_close_signal({TRUE})
    \/ animate_entrance
    \/ animate_entrance_raises
    \/ raise_signal(SignalFiles)

SpecClosing ==
    /\ Init
    /\ [][NextClosing]_vars
    /\ WF_vars(animate_entrance \/ animate_entrance_raises)

\* The AudioInput object after setup(), driven call by call.
NextAudio ==
    \/ get_level(ReadOutcomes)
    \/ set_processing_mode
    \/ cleanup

SpecAudio == Init /\ [][NextAudio]_vars

\* The overlay started without a usable audio device, nothing assumed about
\* its environment.
FailedSetups == SetupResults \ {"ok"}

SpecNoDevice == (\E result \in FailedSetups : InitWith(result)) /\ [][Next]_vars

\* Animation ticks with no audio tick in between.
NextHeld == held_tick

SpecHeld == InitHeld /\ [][NextHeld]_vars

\* The timer area redrawn while the clock runs, the entrance morphs and the
\* signals arrive.
NextTimer ==
    \/ on_draw_timer
    \/ time_passes
    \/ animate_entrance
    \/ check_processing_mode({TRUE}, {FALSE})
    \/ raise_signal({"processing", "error"})

SpecTimer == InitWith("ok") /\ [][NextTimer]_vars

\* The spinner followed through its turns: the processing signal, its poll
\* and the animation tick.
NextSpinner ==
    \/ update_animation(MaxTurn)
    \/ check_processing_mode({TRUE}, {FALSE})
    \/ raise_signal({"processing"})

SpecSpinner == InitWith("ok") /\ [][NextSpinner]_vars

\* The audio history: audio ticks with a working microphone until the
\* processing signal stops them.
NextHistory ==
    \/ update_audio_levels(Sampler(HistoryReads))
    \/ check_processing_mode({TRUE}, {FALSE})
    \/ raise_signal({"processing"})

SpecHistory ==
    /\ InitWave(HistoryBars) /\ InitRest("ok")
    /\ [][NextHistory]_vars

\* ------------------------------------------------------------------ claims
\* C1: teardown is one-shot.  Whatever the order and number of destroy
\* signals and closing-animation ticks, AudioInput.cleanup and Gtk.main_quit
\* have each been called exactly once when the latch is set and not at all
\* before: a later trigger finds the latch and does nothing.
C1_TeardownOnce ==
    /\ cleanup_calls <= 1
    /\ quit_calls <= 1
    /\ shutting_down <=> cleanup_calls = 1
    /\ shutting_down <=> quit_calls = 1

\* C1 witness: the window was destroyed one step before the closing
\* animation ended, and the entrance/exit tick that would have been the
\* terminal one then ran into the latch (its timeout is gone while the
\* progress it would have brought to 0 is still above 0).
C1_Witness ==
    /\ shutting_down
    /\ cleanup_calls = 1
    /\ quit_calls = 1
    /\ is_closing
    /\ animation_progress > 0
    /\ animation_progress <= PROGRESS_STEP
    /\ "morph" \notin timers

\* An entrance/exit tick ran to its end, normally or through the except
\* branch of its wrapper.
MorphTick == animate_entrance \/ animate_entrance_raises

\* C2: closing convergence.  Once is_closing is true, animation_progress
\* never increases, every entrance/exit tick (also one whose handler fails)
\* strictly decreases it while it is above 0, and the tick that brings it to
\* 0 performs the teardown.
C2_ClosingConverges ==
    [][is_closing =>
         /\ animation_progress' <= animation_progress
         /\ (MorphTick /\ animation_progress > 0
               => animation_progress' < animation_progress)
         /\ (MorphTick /\ animation_progress' = 0
               => shutting_down' /\ cleanup_calls' = cleanup_calls + 1)]_vars

\* C3: monotonic morph.  While no close was requested, no step lowers
\* animation_progress or takes it above 1.0, an entrance tick that returns
\* normally adds the step 0.04 clamped to 1.0, and at 1.0 it stays.
C3_MonotonicMorph ==
    [][~is_closing =>
         /\ animation_progress' >= animation_progress
         /\ animation_progress' <= PROGRESS_ONE
         /\ (animate_entrance =>
               animation_progress' =
                   IF animation_progress + PROGRESS_STEP < PROGRESS_ONE
                   THEN animation_progress + PROGRESS_STEP
                   ELSE PROGRESS_ONE)
         /\ (animation_progress = PROGRESS_ONE
               => animation_progress' = PROGRESS_ONE)]_vars

\* C3 witness: the entrance ran its 25 ticks to 1.0 with no close requested
\* and the timeout is still scheduled.
C3_Witness ==
    /\ ~is_closing
    /\ ~shutting_down
    /\ animation_progress = PROGRESS_ONE
    /\ "morph" \in timers

\* Every float field of the waveform is finite and inside [0, 1].
WaveInRange ==
    /\ \A i \in BarIdx : InUnit(bars[i]) /\ InUnit(target_bars[i])
    /\ \A i \in BarIdx : InUnit(audio_levels[i])
    /\ InUnit(overall_audio_level)

\* C4: range invariant.  With a sampler that returns levels in [0, 1], in
\* every state reached by any interleaving of the audio tick, the animation
\* tick, the entrance/exit tick and the signal polls, every bars[i] and
\* target_bars[i], overall_audio_level and animation_progress are in [0, 1].
C4_RangeInvariant ==
    /\ WaveInRange
    /\ 0 <= animation_progress
    /\ animation_progress <= PROGRESS_ONE

\* C4 witness: a full-scale level was jittered above 1.0 and clamped into
\* its target, the bar followed it above the floor, the smoothed level left
\* 0, and the closing animation brought the progress back down to 0.
C4_Witness ==
    /\ \E i \in BarIdx :
         /\ target_bars[i] = One
         /\ FLt(Tenth, bars[i])
    /\ FLt(Zero, overall_audio_level)
    /\ is_closing
    /\ animation_progress = 0

\* C5: adversarial sampler input is not propagated.  Whatever level the
\* sampler hands to the audio tick (negative, above 1.0, NaN, Infinity),
\* overall_audio_level and every audio_levels entry stay finite in [0, 1],
\* every target_bars[i] stays finite in [0.1, 1] and every bars[i] finite in
\* [0, 1].
C5_AdversarialLevelReplaced ==
    /\ InUnit(overall_audio_level)
    /\ \A i \in BarIdx :
         /\ InUnit(audio_levels[i])
         /\ InUnit(target_bars[i])
         /\ ~FLt(target_bars[i], Tenth)
         /\ InUnit(bars[i])

\* The circuit breaker of get_level is open.
BreakerOpen == audio_input.read_errors >= MAX_READ_ERRORS

\* An audio tick that reaches get_level
LevelRead ==
    /\ ~processing_mode
    /\ \/ update_audio_levels(Sampler(ReadOutcomes))
       \/ update_audio_levels_raises(Sampler(ReadOutcomes))

\* C6: circuit breaker.  Once 10 failed reads have opened the breaker, every
\* get_level call returns 0.0 without using the stream, the breaker never
\* closes again, and the 'degraded' flag goes from false to true once, in a
\* call that finds the breaker open.
C6_CircuitBreaker ==
    [][/\ BreakerOpen => BreakerOpen'
       /\ BreakerOpen /\ LevelRead
            => last_call'.ret = Zero /\ ~last_call'.device
       /\ error_state.audio_degraded => error_state'.audio_degraded
       /\ ~error_state.audio_degraded /\ error_state'.audio_degraded
            => BreakerOpen]_vars

\* C7: the breaker counts consecutive failures.  Whenever the breaker is
\* open, the reads made so far end with 10 failed reads in a row, none of
\* them separated by a successful read.
C7_ConsecutiveFailuresOnly == BreakerOpen => fail_streak >= MAX_READ_ERRORS

\* A poll of the processing and connection-error signals, and one of the
\* close signal
ProcessingPoll == check_processing_mode(BOOLEAN, BOOLEAN)
ClosePoll == check_close_signal(BOOLEAN)

\* C8: signals are consumed on observation.  With os.remove succeeding, a
\* poll leaves none of the flags it looks at set: a flag it found set is
\* cleared by that same poll, in whatever state the overlay is.
C8_SignalsConsumed ==
    [][/\ ProcessingPoll => "processing" \notin files' /\ "error" \notin files'
       /\ ClosePoll => "close" \notin files']_vars

\* C9: mode state machine.  The overlay starts in Recording;
\* processing_mode only changes from false to true, in a poll that found
\* the begin-processing flag; is_offline only changes from false to true,
\* in a poll that found the connection-error flag; neither ever returns to
\* false.
C9_ModeMachine ==
    /\ ~processing_mode /\ ~is_offline
    /\ [][/\ processing_mode' # processing_mode
               => /\ ~processing_mode /\ processing_mode'
                  /\ "processing" \in files
                  /\ ProcessingPoll
          /\ is_offline' # is_offline
               => /\ ~is_offline /\ is_offline'
                  /\ "error" \in files
                  /\ ProcessingPoll]_vars

\* C9 witness: Processing and Offline were both entered, the spinner has
\* turned, and all three signals have been raised again since.
C9_Witness ==
    /\ processing_mode
    /\ is_offline
    /\ spinner_angle.ticks > 0
    /\ files = SignalFiles
    /\ ~shutting_down

\* C10: a failing tick never stops the scheduler.  Until teardown, every
\* periodic handler that is scheduled is still scheduled after any tick,
\* also after a tick whose handler raised.
C10_FailedTickStaysScheduled ==
    [][~shutting_down' => timers \subseteq timers']_vars

\* C11: closing takes precedence in every mode.  A poll that finds the
\* close-animation flag leaves is_closing true whatever processing_mode and
\* is_offline are, an entrance/exit tick computes the new progress from
\* is_closing and animation_progress alone, and with the entrance/exit tick
\* scheduled fairly a requested close always leads to the teardown.
C11_ClosingPrecedence ==
    /\ [][/\ ClosePoll /\ "close" \in files => is_closing'
          /\ animate_entrance =>
               animation_progress' = MorphStep(is_closing, animation_progress)
       ]_vars
    /\ is_closing ~> shutting_down

\* C12: teardown stops all periodic callbacks.  Once the _shutting_down latch
\* is set, no step changes bars, target_bars, audio_levels,
\* overall_audio_level, spinner_angle, animation_progress, is_closing or the
\* mode flags, none removes a signal file, none calls get_level or touches
\* the AudioInput object, and a periodic callback that runs is not
\* rescheduled.
C12_LatchStopsCallbacks ==
    [][shutting_down =>
         /\ UNCHANGED <<modeVars, morphVars, waveVars, spinner_angle>>
         /\ UNCHANGED <<files, audio_input, error_state, last_call>>
         /\ timers' \subseteq timers
         /\ \A h \in Handlers : Stopped(h) => h \notin timers']_vars

\* C12 witness: the window was destroyed in Processing with all three signal
\* files raised and the spinner still to turn; all five callbacks have since
\* run into the latch and are gone, the files are still there.
C12_Witness ==
    /\ shutting_down
    /\ timers = {}
    /\ files = SignalFiles
    /\ processing_mode
    /\ spinner_angle.ticks = 0
    /\ animation_progress < PROGRESS_ONE

\* C13: AudioInput.cleanup is idempotent.  Over any number of cleanup calls,
\* after a successful or a failed setup, the stream is stopped and closed at
\* most once and the PyAudio handle terminated at most once, a cleanup call
\* after the first changes nothing, and a get_level call after cleanup
\* returns 0.0 without using the stream and without changing the object.
C13_CleanupIdempotent ==
    [][/\ audio_input'.stops <= 1
       /\ audio_input'.closes <= 1
       /\ audio_input'.terminates <= 1
       /\ cleanup /\ cleanup_calls >= 1 => audio_input' = audio_input
       /\ get_level(ReadOutcomes) /\ cleanup_calls >= 1
            => /\ last_call'.ret = Zero
               /\ ~last_call'.device
               /\ audio_input' = audio_input]_vars

\* C13 witness: a stream that was being read (reads had failed, the breaker
\* was still closed) was cleaned up as often as the bound allows, stopped,
\* closed and terminated once, and the get_level call made since has not
\* used the device.
C13_Witness ==
    /\ cleanup_calls = MaxCleanups
    /\ audio_input.stops = 1
    /\ audio_input.closes = 1
    /\ audio_input.terminates = 1
    /\ ~audio_input.processing_mode
    /\ audio_input.read_errors > 0
    /\ audio_input.read_errors < MAX_READ_ERRORS
    /\ last_call = [ret |-> Zero, device |-> FALSE]
    /\ fail_streak = 0

\* C14: device unavailable degrades to a static minimum-height waveform.
\* When AudioInput.setup failed the overlay runs, no get_level call uses the
\* stream or counts a read error, and in every state overall_audio_level
\* is 0 and every target_bars[i] and every bars[i] is the floor 0.1.
C14_StaticWaveform ==
    /\ ~last_call.device
    /\ audio_input.read_errors = 0
    /\ overall_audio_level = Zero
    /\ \A i \in BarIdx : target_bars[i] = Tenth /\ bars[i] = Tenth

\* C14 witness: PyAudio raised during setup; the overlay has run its
\* entrance to the end, gone offline and is still ticking in Recording.
C14_Witness ==
    /\ audio_input.setup_failed
    /\ ~audio_input.audio
    /\ error_state.consecutive["setup"] = 1
    /\ animation_progress = PROGRESS_ONE
    /\ is_offline
    /\ ~processing_mode
    /\ timers = Handlers
    /\ ~shutting_down

\* C15: bar interpolation convergence.  With target_bars[i] held at 1.0 and
\* bars[i] starting at 0.1, every animation tick outside Processing raises
\* bars[i] without taking it above the target, and from the 20th tick on
\* bars[i] > 0.99.
C15_InterpolationConverges ==
    [][held_tick =>
         \A i \in BarIdx :
            target_bars[i] = FineOne =>
               /\ FLt(bars[i], bars'[i])
               /\ ~FLt(target_bars[i], bars'[i])
               /\ held_ticks' >= 20 =>
                    FLt(Fin(99 * (FineScale \div 100)), bars'[i])]_vars

\* C15 witness: 20 ticks were taken towards the target 1.0 and the bar is
\* above 0.99 and still below the target.
C15_Witness ==
    /\ held_ticks = 20
    /\ \E i \in BarIdx :
         /\ target_bars[i] = FineOne
         /\ FLt(Fin(99 * (FineScale \div 100)), bars[i])
         /\ FLt(bars[i], FineOne)

\* The text the timer is specified to show d tenths of a second after the
\* start: E whole seconds, 0 when negative, 86400 when above; E div 60, a
\* colon, and the two decimal digits of E mod 60
SpecifiedText(d) ==
    LET E == IF d < 0 THEN 0
             ELSE IF d \div TimeUnit > 86400 THEN 86400
             ELSE d \div TimeUnit
    IN ToString(E \div 60) \o ":" \o ToString((E % 60) \div 10)
           \o ToString((E % 60) % 10)

\* C16: timer text.  Whenever a draw in Recording mode shows something, it
\* is minutes:seconds of the elapsed whole seconds, floored at 0 and capped
\* at 86400, minutes unpadded and seconds as two digits; 125 s after the
\* start the text is "2:05".
C16_TimerText ==
    [][on_draw_timer /\ ~processing_mode /\ timer_text' # ""
         => /\ timer_text' = SpecifiedText(clock)
            /\ clock = 125 * TimeUnit => timer_text' = "2:05"]_vars

\* C16 witness: 125 s after the start the timer shows "2:05" in Recording.
C16_Witness ==
    /\ clock = 125 * TimeUnit
    /\ timer_text = "2:05"
    /\ ~processing_mode
    /\ ~is_offline

\* C17: every animation tick, whatever the mode, moves every bar towards its
\* target: bars[i] becomes clamp(bars[i] + (target_bars[i] - bars[i]) * 0.3,
\* 0, 1) for every index.
C17_EveryTickMovesBars ==
    [][update_animation(MaxSpin) =>
         \A i \in BarIdx : bars'[i] = BarStep(bars[i], target_bars[i])]_vars

\* The spinner angle in millionths of a radian
AngleE6(a) == SPIN_STEP_E6 * a.ticks - TWO_PI_E6 * a.wraps

\* C18: spinner.  spinner_angle is 0 in Recording and right after the poll
\* that enters Processing, it changes only on animation ticks in Processing,
\* where it grows by 0.15 and loses 2 * pi exactly when the sum exceeds
\* 2 * pi, and it always satisfies 0 <= spinner_angle < 2 * pi.
C18_Spinner ==
    /\ AngleE6(spinner_angle) = 0
    /\ [][/\ ~processing_mode' => AngleE6(spinner_angle') = 0
          /\ ~processing_mode /\ processing_mode'
               => AngleE6(spinner_angle') = 0
          /\ spinner_angle' # spinner_angle
               => /\ processing_mode
                  /\ update_animation(MaxTurn)
                  /\ AngleE6(spinner_angle') =
                       IF AngleE6(spinner_angle) + SPIN_STEP_E6 > TWO_PI_E6
                       THEN AngleE6(spinner_angle) + SPIN_STEP_E6 - TWO_PI_E6
                       ELSE AngleE6(spinner_angle) + SPIN_STEP_E6
          /\ 0 <= AngleE6(spinner_angle')
          /\ AngleE6(spinner_angle') < TWO_PI_E6]_vars

\* C18 witness: in Processing the spinner has gone round twice.
C18_Witness ==
    /\ processing_mode
    /\ spinner_angle.wraps = 2
    /\ AngleE6(spinner_angle) > 0

\* C19: audio history is a FIFO of num_bars entries read in reverse.  An
\* audio tick outside Processing drops the oldest entry and appends the
\* level just read, keeping the length; the target of bar j (counted from 0)
\* is max(0.1, min(level * jitter, 1.0)) for the level read j audio ticks
\* ago and a jitter of its own, so after num_bars ticks a level is in no
\* target any more.
C19_HistoryFifo ==
    [][update_audio_levels(Sampler(HistoryReads)) /\ ~processing_mode =>
         LET n == Len(audio_levels)
         IN /\ Len(audio_levels') = n
            /\ Len(target_bars') = n
            /\ \A k \in 1 .. n - 1 : audio_levels'[k] = audio_levels[k + 1]
            /\ audio_levels'[n] = last_call'.ret
            /\ \A j \in 0 .. n - 1 :
                 \E jitter \in Jitters :
                    target_bars'[j + 1] =
                       PyMax(Tenth,
                             PyMin(FMulC(audio_levels'[n - j], jitter, 100),
                                   One))]_vars

\* C19 witness: silence, half scale and full scale were read in this order;
\* the newest level is in the first target, jittered down to 0.8, the one
\* before in the second, jittered up to 0.6, and the oldest, silence, has
\* the third target at the floor.
C19_Witness ==
    LET n == Len(audio_levels)
    IN /\ n >= 3
       /\ audio_levels[n] = One
       /\ audio_levels[n - 1] = Fin(Scale \div 2)
       /\ audio_levels[n - 2] = Zero
       /\ target_bars[1] = Fin(8 * (Scale \div 10))
       /\ target_bars[2] = Fin(6 * (Scale \div 10))
       /\ target_bars[3] = Tenth

\* C20: audio smoothing is suspended in Processing.  An audio tick taken
\* while processing_mode is true makes no get_level call and leaves
\* overall_audio_level, audio_levels and target_bars as they are; outside
\* Processing it reads one level, which becomes the newest history entry,
\* and sets overall_audio_level to 0.7 * old + 0.3 * level.  Either way the
\* timer stays scheduled.
C20_SmoothingSuspended ==
    [][update_audio_levels(Sampler(HistoryReads)) =>
         /\ "audio" \in timers'
         /\ IF processing_mode
            THEN /\ UNCHANGED <<overall_audio_level, audio_levels, target_bars>>
                 /\ UNCHANGED <<last_call, audio_input>>
            ELSE /\ audio_levels'[Len(audio_levels')] = last_call'.ret
                 /\ overall_audio_level' =
                      Fin((overall_audio_level.v * 7) \div 10
                          + (last_call'.ret.v * 3) \div 10)]_vars

\* C20 witness: Processing was entered after a full-scale read; the read is
\* still the last get_level call and the smoothed level, the history and the
\* target are as that audio tick left them, with the audio timer scheduled.
C20_Witness ==
    /\ processing_mode
    /\ last_call = [ret |-> One, device |-> TRUE]
    /\ overall_audio_level = Fin((3 * Scale) \div 10)
    /\ audio_levels[Len(audio_levels)] = One
    /\ target_bars[1] = One
    /\ "audio" \in timers

\* C21: the audio 'degraded' flag is raised only by an open breaker.  In
\* every reachable state, error_state.audio_degraded implies
\* _read_errors >= 10, whatever kinds of read failure occurred, unexpected
\* exceptions recorded through log_error included.
C21_DegradedOnlyWhenOpen == error_state.audio_degraded => BreakerOpen

====
